---- MODULE Spec2Model ----
(***************************************************************************)
(* A model of the legacy compatibility shim (src/src/nng_compat.c) and of  *)
(* the Windows platform primitives (src/src/platform/windows/win_thread.c)  *)
(* of nng.                                                                  *)
(*                                                                          *)
(* The one-time initializer nni_plat_init is modelled statement by          *)
(* statement, one thread per caller.  The shim is synchronous: every nn_*   *)
(* call is one transaction against the native layer, so every call is one   *)
(* action; what the native layer may answer (success or an error) is an     *)
(* input of the action.                                                     *)
(***************************************************************************)
EXTENDS Integers, Sequences, FiniteSets, TLC

VARIABLES
    \* ---- nni_plat_init (win_thread.c) ----
    pc,             \* pc[t]: the statement thread t is at
    old,            \* old[t]: the local 'old' of thread t
    path,           \* path[t]: how the last call of t returned
    ncalls,         \* ncalls[t]: calls of nni_plat_init thread t has begun
    initing,        \* static LONG initing
    inited,         \* static LONG inited
    helperStarted,  \* executions of helper() begun
    helperDone,     \* executions of helper() run to completion
    \* ---- the shim (nng_compat.c) and the native layer under it ----
    msgs,           \* the native messages: msgs[id]
    socks,          \* the native sockets that are open
    env,            \* the envelope pointers the application holds
    errno,          \* errno
    last            \* the last nn_* call: its arguments, its result, the
                    \* native calls it made and the state it started from

platVars == <<pc, old, path, ncalls, initing, inited, helperStarted, helperDone>>
shimVars == <<msgs, socks, env, errno, last>>
vars == <<pc, old, path, ncalls, initing, inited, helperStarted, helperDone,
          msgs, socks, env, errno, last>>

(***************************************************************************)
(* Bounds of the model.                                                    *)
(***************************************************************************)
NumThreads == 3     \* threads calling nni_plat_init
MaxCalls == 2       \* calls of nni_plat_init per thread
MaxMsgs == 3        \* native messages allocated in one run
MaxEnvelopes == 1   \* envelopes nn_allocmsg hands out in one run
MaxSize == 2        \* largest small size of an envelope or a message body
MaxIov == 2         \* buffers in a scatter/gather descriptor
MaxBuf == 1         \* largest size of a fixed buffer of a descriptor
MaxHdr == 1         \* largest size of control data and of a message header
MaxBody == 3        \* largest body of a message the native layer delivers
MaxSocks == 2       \* native sockets open at a time

Threads == 1..NumThreads
MsgIds == 1..MaxMsgs
\* The values of a data byte.  The shim moves and copies data bytes and never
\* looks at them, so two values are enough to tell any two bytes apart.
Byte == {0, 1}

Min(a, b) == IF a < b THEN a ELSE b

(***************************************************************************)
(* nni_plat_init.  Reads and writes of the two statics are single steps;   *)
(* both are LONGs, so each location is coherent and a step-by-step          *)
(* interleaving gives every value a read can return.                        *)
(***************************************************************************)

\* InterlockedCompareExchange(Destination, Exchange, Comparand): stores
\* Exchange when the destination equals Comparand; returns the initial value.
InterlockedCompareExchange(dest, exchange, comparand) ==
    [new |-> IF dest = comparand THEN exchange ELSE dest, ret |-> dest]

PlatInitState ==
    /\ pc = [t \in Threads |-> "idle"]
    /\ old = [t \in Threads |-> 0]
    /\ path = [t \in Threads |-> "none"]
    /\ ncalls = [t \in Threads |-> 0]
    /\ initing = 0
    /\ inited = 0
    /\ helperStarted = 0
    /\ helperDone = 0

\* A thread calls nni_plat_init(helper).
PlatCall(t) ==
    /\ pc[t] \in {"idle", "done"}
    /\ ncalls[t] < MaxCalls
    /\ pc' = [pc EXCEPT ![t] = "L156"]
    /\ ncalls' = [ncalls EXCEPT ![t] = @ + 1]
    /\ path' = [path EXCEPT ![t] = "none"]
    /\ UNCHANGED <<old, initing, inited, helperStarted, helperDone>>
    /\ UNCHANGED shimVars

\* if (inited) return (0);   -- the fast path
PlatFastPath(t) ==
    /\ pc[t] = "L156"
    /\ pc' = [pc EXCEPT ![t] = IF inited # 0 THEN "done" ELSE "L165"]
    /\ path' = [path EXCEPT ![t] = IF inited # 0 THEN "fast" ELSE @]
    /\ UNCHANGED <<old, ncalls, initing, inited, helperStarted, helperDone>>
    /\ UNCHANGED shimVars

\* while ((old = InterlockedCompareExchange(&initing, 0, 1)) != 0) Sleep(1);
\* One step is one evaluation of the loop condition; a thread that finds
\* old != 0 sleeps and evaluates it again.
PlatCompareExchange(t) ==
    LET r == InterlockedCompareExchange(initing, 0, 1) IN
    /\ pc[t] = "L165"
    /\ initing' = r.new
    /\ old' = [old EXCEPT ![t] = r.ret]
    /\ pc' = [pc EXCEPT ![t] = IF r.ret # 0 THEN "L165" ELSE "L168"]
    /\ UNCHANGED <<path, ncalls, inited, helperStarted, helperDone>>
    /\ UNCHANGED shimVars

\* PlatTestInited with the test inverted.
PlatTestInitedInverted(t) ==
    /\ pc[t] = "L168"
    /\ pc' = [pc EXCEPT ![t] = IF inited # 0 THEN "L169" ELSE "L172"]
    /\ UNCHANGED <<old, path, ncalls, initing, inited, helperStarted, helperDone>>
    /\ UNCHANGED shimVars

\* if (!inited) { ... }
PlatTestInited(t) ==
    /\ pc[t] = "L168"
    /\ pc' = [pc EXCEPT ![t] = IF inited = 0 THEN "L169" ELSE "L172"]
    /\ UNCHANGED <<old, path, ncalls, initing, inited, helperStarted, helperDone>>
    /\ UNCHANGED shimVars

\* helper();   -- the call begins
PlatHelperBegin(t) ==
    /\ pc[t] = "L169"
    /\ helperStarted' = helperStarted + 1
    /\ pc' = [pc EXCEPT ![t] = "helper"]
    /\ UNCHANGED <<old, path, ncalls, initing, inited, helperDone>>
    /\ UNCHANGED shimVars

\* helper();   -- the call returns
PlatHelperEnd(t) ==
    /\ pc[t] = "helper"
    /\ helperDone' = helperDone + 1
    /\ pc' = [pc EXCEPT ![t] = "L170"]
    /\ UNCHANGED <<old, path, ncalls, initing, inited, helperStarted>>
    /\ UNCHANGED shimVars

\* inited = 1;
PlatSetInited(t) ==
    /\ pc[t] = "L170"
    /\ inited' = 1
    /\ pc' = [pc EXCEPT ![t] = "L172"]
    /\ UNCHANGED <<old, path, ncalls, initing, helperStarted, helperDone>>
    /\ UNCHANGED shimVars

\* InterlockedExchange(&initing, 0); return (0);
PlatRelease(t) ==
    /\ pc[t] = "L172"
    /\ initing' = 0
    /\ pc' = [pc EXCEPT ![t] = "done"]
    /\ path' = [path EXCEPT ![t] = "slow"]
    /\ UNCHANGED <<old, ncalls, inited, helperStarted, helperDone>>
    /\ UNCHANGED shimVars

PlatNext ==
    \E t \in Threads :
        \/ PlatCall(t)
        \/ PlatFastPath(t)
        \/ PlatCompareExchange(t)
        \/ PlatTestInited(t)
        \/ PlatHelperBegin(t)
        \/ PlatHelperEnd(t)
        \/ PlatSetInited(t)
        \/ PlatRelease(t)

(***************************************************************************)
(* Values of the shim.                                                     *)
(*                                                                          *)
(* size_t: the shim's arithmetic on sizes wraps at 2^w (w the width of      *)
(* size_t).  A size is written as a small integer x: x >= 0 is the size x,  *)
(* x < 0 is the size 2^w + x (so -1 is SIZE_MAX).  For sizes within a small *)
(* distance of 0 or of 2^w, which is all the model uses, x + y written this *)
(* way is exactly the wrapped sum, and unsigned order puts every            *)
(* non-negative x below every negative one.                                 *)
(***************************************************************************)
SizeofMsg == 8          \* sizeof (nng_msg *)
SizeofInt == 4          \* sizeof (int)
NN_MSG == -1            \* ((size_t) -1)

SizeAdd(a, b) == a + b
SizeLess(a, b) == IF (a >= 0) = (b >= 0) THEN a < b ELSE a >= 0

\* Sizes a caller may pass: the small ones, and the ones near SIZE_MAX for
\* which adding sizeof (msg) does and does not wrap.
SizeInputs == (0..MaxSize) \cup {NN_MSG, 0 - SizeofMsg, 0 - SizeofMsg - 1}

\* A pointer into the buffer of native message m, off bytes from its start.
NullPtr == [m |-> 0, off |-> 0]

\* The bytes of the handle (nng_msg *) of message id, as stored in memory.
\* Handle bytes are kept apart from the data bytes.
HandleByte(id, k) == 16 * id + k
Stamp(id) == [k \in 1..SizeofMsg |-> HandleByte(id, k)]

\* nni_alloc: HeapAlloc(..., HEAP_ZERO_MEMORY, sz)
nni_alloc(sz) == [i \in 1..sz |-> 0]

(***************************************************************************)
(* The error table and nn_seterror.                                        *)
(***************************************************************************)
nn_errnos == <<
    [nerr |-> "NNG_EINTR",        perr |-> "EINTR"],
    [nerr |-> "NNG_ENOMEM",       perr |-> "ENOMEM"],
    [nerr |-> "NNG_EINVAL",       perr |-> "EINVAL"],
    [nerr |-> "NNG_EBUSY",        perr |-> "EBUSY"],
    [nerr |-> "NNG_ETIMEDOUT",    perr |-> "ETIMEDOUT"],
    [nerr |-> "NNG_ECONNREFUSED", perr |-> "ECONNREFUSED"],
    [nerr |-> "NNG_ECLOSED",      perr |-> "EBADF"],
    [nerr |-> "NNG_EAGAIN",       perr |-> "EAGAIN"],
    [nerr |-> "NNG_ENOTSUP",      perr |-> "ENOTSUP"],
    [nerr |-> "NNG_EADDRINUSE",   perr |-> "EADDRINUSE"],
    [nerr |-> "NNG_ESTATE",       perr |-> "EFSM"],
    [nerr |-> "NNG_ENOENT",       perr |-> "ENOENT"],
    [nerr |-> "NNG_EPROTO",       perr |-> "EPROTO"],
    [nerr |-> "NNG_EUNREACHABLE", perr |-> "EHOSTUNREACH"],
    [nerr |-> "NNG_EADDRINVAL",   perr |-> "EADDRNOTAVAIL"],
    [nerr |-> "NNG_EPERM",        perr |-> "EACCES"],
    [nerr |-> "NNG_EMSGSIZE",     perr |-> "EMSGSIZE"],
    [nerr |-> "NNG_ECONNABORTED", perr |-> "ECONNABORTED"],
    [nerr |-> "NNG_ECONNRESET",   perr |-> "ECONNRESET"],
    [nerr |-> "0",                perr |-> "0"] >>

RECURSIVE nn_seterror_scan(_, _)
nn_seterror_scan(i, err) ==
    IF nn_errnos[i].nerr = "0" THEN "EIO"
    ELSE IF nn_errnos[i].nerr = err THEN nn_errnos[i].perr
    ELSE nn_seterror_scan(i + 1, err)

\* nn_seterror with a scan that starts at the second entry of the table.
nn_seterror_SkipFirst(err) == nn_seterror_scan(2, err)

\* The value nn_seterror(err) leaves in errno.
nn_seterror(err) == nn_seterror_scan(1, err)

\* The scan of nn_strerror: the native code of the first entry whose POSIX
\* code is err, "0" when the scan reaches the end of the table.
RECURSIVE nn_strerror_scan(_, _)
nn_strerror_scan(i, err) ==
    IF nn_errnos[i].perr = "0" THEN "0"
    ELSE IF nn_errnos[i].perr = err THEN nn_errnos[i].nerr
    ELSE nn_strerror_scan(i + 1, err)

\* nn_strerror(err): the text of nng_strerror for the native code found, or
\* one of the two texts of the shim.
nn_strerror(err) ==
    IF nn_strerror_scan(1, err) # "0"
    THEN [text |-> "nng_strerror", nerr |-> nn_strerror_scan(1, err)]
    ELSE IF err = "EIO"
    THEN [text |-> "Unknown I/O error", nerr |-> "0"]
    ELSE [text |-> "Unknown error %d", nerr |-> "0"]

\* The native codes a native call may answer (those of the table, codes the
\* table does not have, and 0), and the POSIX codes nn_strerror is asked
\* about.
NativeCodes ==
    {nn_errnos[i].nerr : i \in 1..Len(nn_errnos)}
        \cup {"NNG_ESYSERR", "NNG_ETRANERR", "NNG_EINTERNAL"}
PosixCodes == ({nn_errnos[i].perr : i \in 1..Len(nn_errnos)} \ {"0"}) \cup {"EIO", "EDOM"}

(***************************************************************************)
(* The native message primitives.  A message has a body buffer buf, of     *)
(* which the first off bytes are trimmed (still in memory, no longer part   *)
(* of the body), and a header hdr.  own tells whether the native layer has  *)
(* taken the message over (a successful send).                              *)
(*                                                                          *)
(* Of the trimmed bytes the model keeps the ones trimmed last: they are the *)
(* only ones the shim ever reads (the handle in front of the body).         *)
(***************************************************************************)
NoMsg == [st |-> "none", buf |-> << >>, off |-> 0, hdr |-> << >>,
          own |-> "none", frees |-> 0]

HasFresh(h) == \E i \in MsgIds : h[i].st = "none"
FreshId(h) ==
    CHOOSE i \in MsgIds :
        /\ h[i].st = "none"
        /\ \A j \in MsgIds : h[j].st = "none" => i <= j

Live(h, id) == id \in MsgIds /\ h[id].st = "live"

\* nng_msg_alloc(&msg, sz), when it succeeds: the new message is FreshId(h).
nng_msg_alloc(h, sz) ==
    [h EXCEPT ![FreshId(h)] =
        [st |-> "live", buf |-> nni_alloc(sz), off |-> 0, hdr |-> << >>,
         own |-> "user", frees |-> 0]]

nng_msg_free(h, id) ==
    [h EXCEPT ![id] = [st |-> "freed", buf |-> << >>, off |-> 0, hdr |-> << >>,
                       own |-> "none", frees |-> h[id].frees + 1]]

nng_msg_len(h, id) == Len(h[id].buf) - h[id].off
nng_msg_body(h, id) == [m |-> id, off |-> h[id].off]
nng_msg_header(h, id) == h[id].hdr
nng_msg_header_len(h, id) == Len(h[id].hdr)

\* The body of message id, as a sequence of bytes.
Body(h, id) == SubSeq(h[id].buf, h[id].off + 1, Len(h[id].buf))

\* nng_msg_trim(msg, n): the first n bytes of the body leave the body and
\* stay in memory in front of it.
nng_msg_trim(h, id, n) ==
    IF n > nng_msg_len(h, id) THEN h
    ELSE [h EXCEPT ![id].buf = Body(h, id), ![id].off = n]

\* nng_msg_realloc(msg, sz), when it succeeds: the body becomes sz bytes
\* long, keeping its first bytes; bytes added at the end are new memory.
nng_msg_realloc(h, id, sz) ==
    LET len == nng_msg_len(h, id) IN
    IF len < sz
    THEN [h EXCEPT ![id].buf = @ \o nni_alloc(sz - len)]
    ELSE [h EXCEPT ![id].buf = SubSeq(@, 1, h[id].off + sz)]

\* nng_msg_prepend(msg, data, n), when it succeeds.
nng_msg_prepend(h, id, data) ==
    [h EXCEPT ![id].buf = data \o Body(h, id), ![id].off = 0]

\* nng_msg_append_header(msg, data, n), when it succeeds.
nng_msg_append_header(h, id, data) ==
    [h EXCEPT ![id].hdr = @ \o data]

\* memcpy(p, cells, Len(cells)) into the buffer p points into.
Store(h, p, cells) ==
    [h EXCEPT ![p.m].buf =
        [i \in 1..Len(@) |->
            IF i > p.off /\ i <= p.off + Len(cells) THEN cells[i - p.off] ELSE @[i]]]

\* The n bytes at p.
Load(h, p, n) == SubSeq(h[p.m].buf, p.off + 1, p.off + n)

\* *(nng_msg **) (((char *) ptr) - sizeof (msg)): the message whose handle
\* is stored in front of ptr; 0 when the bytes there are no handle of a
\* live message (the read is then of a wild or dangling pointer).
HandleAt(h, p) ==
    IF Live(h, p.m) /\ p.off >= SizeofMsg /\ p.off <= Len(h[p.m].buf)
    THEN LET c == SubSeq(h[p.m].buf, p.off - SizeofMsg + 1, p.off) IN
         IF \E i \in MsgIds : c = Stamp(i) /\ Live(h, i)
         THEN CHOOSE i \in MsgIds : c = Stamp(i)
         ELSE 0
    ELSE 0

\* The bytes an application sees behind an envelope pointer: the body of
\* the message the pointer points into, from the pointer on.
Visible(h, p) == SubSeq(h[p.m].buf, p.off + 1, Len(h[p.m].buf))

\* What a call of the shim did: the heap it leaves, its return value, the
\* value it stored in errno ("" when it stored none) and the native calls
\* it made, in order.  ub: the call read through a pointer that is no
\* envelope of a live message (undefined behaviour), and did nothing else.
Result(h, ret, err, nat) ==
    [h |-> h, ret |-> ret, err |-> err, nat |-> nat, ub |-> FALSE]
Undefined(h, ret) ==
    [h |-> h, ret |-> ret, err |-> "", nat |-> << >>, ub |-> TRUE]

(***************************************************************************)
(* The envelope manager: nn_allocmsg, nn_freemsg, nn_reallocmsg.           *)
(* arv, rrv: what the native allocation, the native resize answer ("0" is  *)
(* success).                                                                *)
(***************************************************************************)
\* StashAndTrim without the trim.
StashNoTrim(h, msg) == Store(h, nng_msg_body(h, msg), Stamp(msg))

\* *(nng_msg **) (nng_msg_body(msg)) = msg; nng_msg_trim(msg, sizeof (msg));
StashAndTrim(h, msg) ==
    nng_msg_trim(Store(h, nng_msg_body(h, msg), Stamp(msg)), msg, SizeofMsg)

\* return (nng_msg_body(msg));
BodyPtr(h, msg, nat) == Result(h, nng_msg_body(h, msg), "", nat)

nn_allocmsg(h, size, type, arv) ==
    IF (type # 0) \/ SizeLess(size, 1) \/ SizeLess(SizeAdd(size, SizeofMsg), size)
    THEN Result(h, NullPtr, nn_seterror("NNG_EINVAL"), << >>)
    ELSE IF arv # "0"
    THEN Result(h, NullPtr, nn_seterror(arv), <<"nng_msg_alloc">>)
    ELSE BodyPtr(StashAndTrim(nng_msg_alloc(h, SizeAdd(size, SizeofMsg)),
                              FreshId(h)),
                 FreshId(h),
                 <<"nng_msg_alloc", "nng_msg_body", "nng_msg_trim", "nng_msg_body">>)

nn_freemsg(h, ptr) ==
    LET msg == HandleAt(h, ptr) IN
    IF msg = 0 THEN Undefined(h, 0)
    ELSE Result(nng_msg_free(h, msg), 0, "", <<"nng_msg_free">>)

\* nn_reallocmsg freeing the old message when the native resize fails.
nn_reallocmsg_FreeOnFailure(h, ptr, len, rrv) ==
    IF SizeLess(SizeAdd(len, SizeofMsg), len)
    THEN Result(h, NullPtr, nn_seterror("NNG_EINVAL"), << >>)
    ELSE LET msg == HandleAt(h, ptr) IN
         IF msg = 0 THEN Undefined(h, NullPtr)
         ELSE IF rrv # "0"
         THEN Result(nng_msg_free(h, msg), NullPtr, nn_seterror(rrv),
                     <<"nng_msg_realloc", "nng_msg_free">>)
         ELSE BodyPtr(StashAndTrim(nng_msg_realloc(h, msg, SizeAdd(len, SizeofMsg)),
                                   msg),
                      msg,
                      <<"nng_msg_realloc", "nng_msg_body", "nng_msg_trim",
                        "nng_msg_body">>)

nn_reallocmsg(h, ptr, len, rrv) ==
    IF SizeLess(SizeAdd(len, SizeofMsg), len)
    THEN Result(h, NullPtr, nn_seterror("NNG_EINVAL"), << >>)
    ELSE LET msg == HandleAt(h, ptr) IN
         IF msg = 0 THEN Undefined(h, NullPtr)
         ELSE IF rrv # "0"
         THEN Result(h, NullPtr, nn_seterror(rrv), <<"nng_msg_realloc">>)
         ELSE BodyPtr(StashAndTrim(nng_msg_realloc(h, msg, SizeAdd(len, SizeofMsg)),
                                   msg),
                      msg,
                      <<"nng_msg_realloc", "nng_msg_body", "nng_msg_trim",
                        "nng_msg_body">>)

\* What the native allocator may answer to a request for sz bytes: a size
\* near SIZE_MAX cannot be had.
AllocAnswers(sz) == IF sz < 0 THEN {"NNG_ENOMEM"} ELSE {"0", "NNG_ENOMEM"}

\* All byte sequences of length n.
Bytes(n) == [1..n -> Byte]

ShimInitState ==
    /\ msgs = [i \in MsgIds |-> NoMsg]
    /\ socks = {}
    /\ env = {}
    /\ errno = "0"
    /\ last = [op |-> "none"]

Errno(r) == IF r.err = "" THEN errno ELSE r.err

\* nn_allocmsg(size, type)
AllocMsg ==
    \E size \in SizeInputs, type \in {0, 1} :
    \E arv \in AllocAnswers(SizeAdd(size, SizeofMsg)) :
        /\ HasFresh(msgs)
        /\ Cardinality({i \in MsgIds : msgs[i].st # "none"}) < MaxEnvelopes
        /\ \E r \in {nn_allocmsg(msgs, size, type, arv)} :
            /\ msgs' = r.h
            /\ env' = IF r.ret # NullPtr THEN env \cup {r.ret} ELSE env
            /\ errno' = Errno(r)
            /\ last' = [op |-> "nn_allocmsg", size |-> size, type |-> type,
                        ret |-> r.ret, nat |-> r.nat, ub |-> r.ub, pre |-> msgs]
        /\ UNCHANGED socks
        /\ UNCHANGED platVars

\* The application fills the envelope nn_allocmsg has just returned with
\* the bytes B.
AppWrite ==
    /\ last.op = "nn_allocmsg"
    /\ last.ret \in env
    /\ \E ptr \in {last.ret} :
       \E B \in Bytes(Len(Visible(msgs, ptr))) :
        /\ msgs' = Store(msgs, ptr, B)
        /\ last' = [op |-> "write", ptr |-> ptr]
        /\ UNCHANGED <<socks, env, errno>>
        /\ UNCHANGED platVars

\* nn_reallocmsg(ptr, len)
ReallocMsg ==
    \E ptr \in env, len \in SizeInputs :
    \E rrv \in AllocAnswers(SizeAdd(len, SizeofMsg)) :
    \E r \in {nn_reallocmsg(msgs, ptr, len, rrv)} :
        /\ msgs' = r.h
        /\ env' = IF r.ret # NullPtr THEN (env \ {ptr}) \cup {r.ret} ELSE env
        /\ errno' = Errno(r)
        /\ last' = [op |-> "nn_reallocmsg", ptr |-> ptr, len |-> len,
                    ret |-> r.ret, nat |-> r.nat, ub |-> r.ub, pre |-> msgs]
        /\ UNCHANGED socks
        /\ UNCHANGED platVars

\* nn_freemsg(ptr)
FreeMsg ==
    \E ptr \in env :
    \E r \in {nn_freemsg(msgs, ptr)} :
        /\ msgs' = r.h
        /\ env' = env \ {ptr}
        /\ errno' = Errno(r)
        /\ last' = [op |-> "nn_freemsg", ptr |-> ptr,
                    ret |-> r.ret, nat |-> r.nat, ub |-> r.ub, pre |-> msgs]
        /\ UNCHANGED socks
        /\ UNCHANGED platVars

MsgNext == AllocMsg \/ AppWrite \/ ReallocMsg \/ FreeMsg

(***************************************************************************)
(* Scatter/gather I/O: nn_recvmsg and nn_sendmsg.                          *)
(*                                                                          *)
(* A descriptor (struct nn_msghdr) is a record: null (mh == NULL), iovlen,  *)
(* iov (a buffer is its iov_len, the bytes data it holds when it is a fixed *)
(* buffer, and the envelope pointer base when its iov_len is NN_MSG),       *)
(* control ("null", "fixed" or "dyn"), controllen, cdata (the bytes of a    *)
(* fixed control buffer) and cptr (the control envelope).                   *)
(***************************************************************************)
SizeofSizeT == 8        \* sizeof (size_t)
SizeofCmsghdr == 16     \* sizeof (struct nn_cmsghdr)
PROTO_SP == 1
SP_HDR == 1
Untouched == -1         \* a byte of caller memory the call has not written

\* NN_CMSG_ALIGN(len), NN_CMSG_SPACE(len)
NN_CMSG_ALIGN(len) == ((len + SizeofSizeT - 1) \div SizeofSizeT) * SizeofSizeT
NN_CMSG_SPACE(len) == NN_CMSG_ALIGN(len) + NN_CMSG_ALIGN(SizeofCmsghdr)

\* The bytes of a struct nn_cmsghdr { size_t cmsg_len; int cmsg_level;
\* int cmsg_type; } followed by its data (NN_CMSG_DATA).
EncodeField(v, width) == <<v>> \o nni_alloc(width - 1)
CmsgRecord(hdr) ==
    EncodeField(Len(hdr), SizeofSizeT) \o EncodeField(PROTO_SP, SizeofInt)
        \o EncodeField(SP_HDR, SizeofInt) \o hdr

\* A caller buffer of n bytes before the call, and memcpy(buf, cells, ...)
\* or memset to its start.
Blank(n) == [i \in 1..n |-> Untouched]
Overwrite(buf, cells) == cells \o SubSeq(buf, Len(cells) + 1, Len(buf))

\* nn_flags
nn_flags(flags) ==
    CASE flags = "0" -> "0"
      [] flags = "NN_DONTWAIT" -> "NNG_FLAG_NONBLOCK"
      [] OTHER -> "-1"

\* nng_recvmsg(s, &msg, flags), when it succeeds: the native layer hands
\* over a new message, FreshId(h), with body and header rmsg.
nng_recvmsg(h, rmsg) ==
    [h EXCEPT ![FreshId(h)] =
        [st |-> "live", buf |-> rmsg.body, off |-> 0, hdr |-> rmsg.hdr,
         own |-> "user", frees |-> 0]]

\* nng_sendmsg(s, msg, flags), when it succeeds: the message is the native
\* layer's.
nng_sendmsg(h, id) == [h EXCEPT ![id].own = "native"]

\* What nn_recvmsg did: as Result, and bufs (the caller's buffers), ctl (the
\* caller's fixed control buffer), bodyptr and ctlptr (the pointers stored
\* through msg_iov[0].iov_base and msg_control), msg (the message received).
RecvResult(h, ret, err, nat, bufs, ctl, bodyptr, ctlptr, msg) ==
    [h |-> h, ret |-> ret, err |-> err, nat |-> nat, ub |-> FALSE,
     bufs |-> bufs, ctl |-> ctl, bodyptr |-> bodyptr, ctlptr |-> ctlptr,
     msg |-> msg]

RecvBlank(mh) ==
    [i \in 1..Len(mh.iov) |->
        IF mh.iov[i].len >= 0 THEN Blank(mh.iov[i].len) ELSE << >>]

\* The copy-out loop without "ptr += n": every buffer is filled from the
\* start of the body.
RECURSIVE CopyOutNoAdvance(_, _, _, _, _)
CopyOutNoAdvance(iov, i, body, pos, bufs) ==
    IF i > Len(iov) THEN [ok |-> TRUE, bufs |-> bufs]
    ELSE IF iov[i].len = NN_MSG THEN [ok |-> FALSE, bufs |-> bufs]
    ELSE CopyOutNoAdvance(iov, i + 1, body,
                 pos + (IF SizeLess(Len(body) - pos, iov[i].len)
                        THEN Len(body) - pos ELSE iov[i].len),
                 [bufs EXCEPT ![i] =
                    Overwrite(@, SubSeq(body, 1,
                        (IF SizeLess(Len(body) - pos, iov[i].len)
                         THEN Len(body) - pos ELSE iov[i].len)))])

\* The copy-out loop from buffer i on; pos bytes of the body are copied.
RECURSIVE CopyOut(_, _, _, _, _)
CopyOut(iov, i, body, pos, bufs) ==
    IF i > Len(iov) THEN [ok |-> TRUE, bufs |-> bufs]
    ELSE IF iov[i].len = NN_MSG THEN [ok |-> FALSE, bufs |-> bufs]
    ELSE CopyOut(iov, i + 1, body,
                 pos + (IF SizeLess(Len(body) - pos, iov[i].len)
                        THEN Len(body) - pos ELSE iov[i].len),
                 [bufs EXCEPT ![i] =
                    Overwrite(@, SubSeq(body, pos + 1,
                        pos + (IF SizeLess(Len(body) - pos, iov[i].len)
                               THEN Len(body) - pos ELSE iov[i].len)))])

\* The end of nn_recvmsg without "if (!keep)": the message is freed also
\* when the caller has been given it.
RecvFinishFreeAlways(h, msg, keep, len, nat, bufs, ctl, bodyptr, ctlptr) ==
    RecvResult(nng_msg_free(h, msg), len, "", nat \o <<"nng_msg_free">>,
               bufs, ctl, bodyptr, ctlptr, msg)

\* if (!keep) nng_msg_free(msg); return ((int) len);
RecvFinish(h, msg, keep, len, nat, bufs, ctl, bodyptr, ctlptr) ==
    IF keep
    THEN RecvResult(h, len, "", nat, bufs, ctl, bodyptr, ctlptr, msg)
    ELSE RecvResult(nng_msg_free(h, msg), len, "", nat \o <<"nng_msg_free">>,
                    bufs, ctl, bodyptr, ctlptr, msg)

\* The new control envelope: nmsg allocated, stamped, trimmed and filled.
RecvNewControl(h, msg, nmsg) ==
    Store(StashAndTrim(h, nmsg), nng_msg_body(StashAndTrim(h, nmsg), nmsg),
          CmsgRecord(nng_msg_header(h, msg)))

\* The caller's control buffer of tlen bytes after the call.
RecvFixedControl(h, msg, tlen) ==
    IF NN_CMSG_SPACE(nng_msg_header_len(h, msg)) <= tlen
    THEN Overwrite(Overwrite(Blank(tlen), nni_alloc(Min(tlen, SizeofCmsghdr))),
                   CmsgRecord(nng_msg_header(h, msg)))
    ELSE Overwrite(Blank(tlen), nni_alloc(Min(tlen, SizeofCmsghdr)))

\* if (mh->msg_control != NULL) { ... } and what follows it.
RecvControl(h, mh, msg, keep, len, nat, bufs, bodyptr, arv) ==
    IF mh.control = "null"
    THEN RecvFinish(h, msg, keep, len, nat, bufs, << >>, bodyptr, NullPtr)
    ELSE IF mh.controllen = NN_MSG
    THEN IF arv # "0"
         THEN RecvResult(nng_msg_free(h, msg), -1, nn_seterror(arv),
                         nat \o <<"nng_msg_alloc", "nng_msg_free">>,
                         bufs, << >>, bodyptr, NullPtr, msg)
         ELSE RecvFinish(
                RecvNewControl(
                    nng_msg_alloc(h, SizeAdd(NN_CMSG_SPACE(nng_msg_header_len(h, msg)),
                                             SizeofMsg)),
                    msg, FreshId(h)),
                msg, keep, len, nat \o <<"nng_msg_alloc", "nng_msg_trim">>,
                bufs, << >>, bodyptr, [m |-> FreshId(h), off |-> SizeofMsg])
    ELSE RecvFinish(h, msg, keep, len, nat, bufs,
                    RecvFixedControl(h, msg, mh.controllen), bodyptr, NullPtr)

\* The part of nn_recvmsg after the native receive has delivered msg.
RecvDeliver(h, mh, msg, prv, arv) ==
    IF mh.iovlen = 1 /\ mh.iov[1].len = NN_MSG
    THEN IF prv # "0"
         THEN RecvResult(nng_msg_free(h, msg), -1, nn_seterror(prv),
                         <<"nng_recvmsg", "nng_msg_prepend", "nng_msg_free">>,
                         RecvBlank(mh), << >>, NullPtr, NullPtr, msg)
         ELSE RecvControl(
                nng_msg_trim(nng_msg_prepend(h, msg, Stamp(msg)), msg, SizeofMsg),
                mh, msg, TRUE, nng_msg_len(h, msg),
                <<"nng_recvmsg", "nng_msg_prepend", "nng_msg_trim">>,
                RecvBlank(mh), [m |-> msg, off |-> SizeofMsg], arv)
    ELSE IF CopyOut(mh.iov, 1, Body(h, msg), 0, RecvBlank(mh)).ok
    THEN RecvControl(h, mh, msg, FALSE, nng_msg_len(h, msg), <<"nng_recvmsg">>,
                     CopyOut(mh.iov, 1, Body(h, msg), 0, RecvBlank(mh)).bufs,
                     NullPtr, arv)
    ELSE RecvResult(nng_msg_free(h, msg), -1, nn_seterror("NNG_EINVAL"),
                    <<"nng_recvmsg", "nng_msg_free">>,
                    CopyOut(mh.iov, 1, Body(h, msg), 0, RecvBlank(mh)).bufs,
                    << >>, NullPtr, NullPtr, msg)

RecvFail(h, mh, err, nat) ==
    RecvResult(h, -1, err, nat,
               IF mh.null THEN << >> ELSE RecvBlank(mh), << >>, NullPtr, NullPtr, 0)

\* nn_recvmsg(s, mh, flags).  rrv, prv, arv: what the native receive, the
\* native prepend and the native allocation answer; rmsg: the message the
\* native receive delivers.
nn_recvmsg(h, mh, flags, rrv, rmsg, prv, arv) ==
    IF nn_flags(flags) = "-1" THEN RecvFail(h, mh, nn_seterror("NNG_EINVAL"), << >>)
    ELSE IF mh.null THEN RecvFail(h, mh, nn_seterror("NNG_EINVAL"), << >>)
    ELSE IF mh.iovlen < 0 THEN RecvFail(h, mh, nn_seterror("NNG_EMSGSIZE"), << >>)
    ELSE IF rrv # "0" THEN RecvFail(h, mh, nn_seterror(rrv), <<"nng_recvmsg">>)
    ELSE RecvDeliver(nng_recvmsg(h, rmsg), mh, FreshId(h), prv, arv)

\* What nn_sendmsg did: as Result, and msg (the message it sent or tried to
\* send, 0 when it had none), keep (msg is an adopted envelope) and cmsg
\* (the control envelope, 0 when there is none).
SendResult(h, ret, err, nat, msg, keep, cmsg) ==
    [h |-> h, ret |-> ret, err |-> err, nat |-> nat, ub |-> FALSE,
     msg |-> msg, keep |-> keep, cmsg |-> cmsg]
SendUndefined(h) ==
    [h |-> h, ret |-> -1, err |-> "", nat |-> << >>, ub |-> TRUE,
     msg |-> 0, keep |-> FALSE, cmsg |-> 0]

\* sz += mh->msg_iov[i].iov_len, for the buffers from i on.
RECURSIVE SumLens(_, _)
SumLens(iov, i) ==
    IF i > Len(iov) THEN 0 ELSE SizeAdd(iov[i].len, SumLens(iov, i + 1))

\* The bytes the copy loop writes to the body, buffer after buffer.
RECURSIVE Gather(_, _)
Gather(iov, i) ==
    IF i > Len(iov) THEN << >> ELSE iov[i].data \o Gather(iov, i + 1)

\* The failure path without "if (!keep)": the message is freed whoever owns
\* it.
SendFailFreeAlways(h, msg, keep, cmsg, rv, nat) ==
    SendResult(nng_msg_free(h, msg), -1, nn_seterror(rv),
               nat \o <<"nng_msg_free">>, msg, keep, cmsg)

\* if (!keep) nng_msg_free(msg); nn_seterror(rv); return (-1);
SendFail(h, msg, keep, cmsg, rv, nat) ==
    IF keep
    THEN SendResult(h, -1, nn_seterror(rv), nat, msg, keep, cmsg)
    ELSE SendResult(nng_msg_free(h, msg), -1, nn_seterror(rv),
                    nat \o <<"nng_msg_free">>, msg, keep, cmsg)

\* The send releasing the control envelope after a failed send as well.
SendNativeFreeControlAlways(h, msg, keep, cmsg, srv, nat) ==
    IF srv # "0"
    THEN IF cmsg # 0
         THEN SendFail(nng_msg_free(h, cmsg), msg, keep, cmsg, srv,
                       nat \o <<"nng_sendmsg", "nng_msg_free">>)
         ELSE SendFail(h, msg, keep, cmsg, srv, nat \o <<"nng_sendmsg">>)
    ELSE IF cmsg # 0
    THEN SendResult(nng_msg_free(nng_sendmsg(h, msg), cmsg), nng_msg_len(h, msg), "",
                    nat \o <<"nng_sendmsg", "nng_msg_free">>, msg, keep, cmsg)
    ELSE SendResult(nng_sendmsg(h, msg), nng_msg_len(h, msg), "",
                    nat \o <<"nng_sendmsg">>, msg, keep, cmsg)

\* sz = nng_msg_len(msg); nng_sendmsg(...); and the release of the control
\* envelope after a successful send.
SendNative(h, msg, keep, cmsg, srv, nat) ==
    IF srv # "0"
    THEN SendFail(h, msg, keep, cmsg, srv, nat \o <<"nng_sendmsg">>)
    ELSE IF cmsg # 0
    THEN SendResult(nng_msg_free(nng_sendmsg(h, msg), cmsg), nng_msg_len(h, msg), "",
                    nat \o <<"nng_sendmsg", "nng_msg_free">>, msg, keep, cmsg)
    ELSE SendResult(nng_sendmsg(h, msg), nng_msg_len(h, msg), "",
                    nat \o <<"nng_sendmsg">>, msg, keep, cmsg)

\* The send without the append of the control data to the header.
SendAppendNothing(h, msg, keep, cmsg, data, hrv, srv, nat) ==
    IF hrv # "0"
    THEN SendFail(h, msg, keep, cmsg, hrv, nat \o <<"nng_msg_append_header">>)
    ELSE SendNative(h, msg, keep, cmsg, srv, nat \o <<"nng_msg_append_header">>)

\* nng_msg_append_header(msg, cdata, clen) and what follows it.
SendAppend(h, msg, keep, cmsg, data, hrv, srv, nat) ==
    IF hrv # "0"
    THEN SendFail(h, msg, keep, cmsg, hrv, nat \o <<"nng_msg_append_header">>)
    ELSE SendNative(nng_msg_append_header(h, msg, data), msg, keep, cmsg, srv,
                    nat \o <<"nng_msg_append_header">>)

\* "Now suck up the control data..." and what follows it.
SendControl(h, mh, msg, keep, hrv, srv, nat) ==
    IF mh.control = "null" THEN SendNative(h, msg, keep, 0, srv, nat)
    ELSE IF mh.controllen = NN_MSG
    THEN IF HandleAt(h, mh.cptr) = 0 THEN SendUndefined(h)
         ELSE SendAppend(h, msg, keep, HandleAt(h, mh.cptr),
                         Load(h, mh.cptr, nng_msg_len(h, HandleAt(h, mh.cptr))),
                         hrv, srv, nat)
    ELSE SendAppend(h, msg, keep, 0, mh.cdata, hrv, srv, nat)

\* The gather by copy.
SendGather(h, mh, arv, hrv, srv) ==
    IF arv # "0"
    THEN SendResult(h, -1, nn_seterror(arv), <<"nng_msg_alloc">>, 0, FALSE, 0)
    ELSE IF \E i \in 1..Len(mh.iov) : mh.iov[i].len < 0
    THEN SendUndefined(h)  \* memcpy of close to SIZE_MAX bytes
    ELSE SendControl(
            Store(nng_msg_alloc(h, SumLens(mh.iov, 1)),
                  [m |-> FreshId(h), off |-> 0], Gather(mh.iov, 1)),
            mh, FreshId(h), FALSE, hrv, srv, <<"nng_msg_alloc">>)

\* nn_sendmsg(s, mh, flags).  arv, hrv, srv: what the native allocation,
\* the native header append and the native send answer.
nn_sendmsg(h, mh, flags, arv, hrv, srv) ==
    IF nn_flags(flags) = "-1"
    THEN SendResult(h, -1, nn_seterror("NNG_EINVAL"), << >>, 0, FALSE, 0)
    ELSE IF mh.null
    THEN SendResult(h, -1, nn_seterror("NNG_EINVAL"), << >>, 0, FALSE, 0)
    ELSE IF mh.iovlen < 0
    THEN SendResult(h, -1, nn_seterror("NNG_EMSGSIZE"), << >>, 0, FALSE, 0)
    ELSE IF mh.iovlen = 1 /\ mh.iov[1].len = NN_MSG
    THEN IF HandleAt(h, mh.iov[1].base) = 0 THEN SendUndefined(h)
         ELSE SendControl(h, mh, HandleAt(h, mh.iov[1].base), TRUE, hrv, srv, << >>)
    ELSE SendGather(h, mh, arv, hrv, srv)

(***************************************************************************)
(* The calls of nn_recvmsg and nn_sendmsg.  A run makes one call: the calls *)
(* keep no state of their own, so a call is decided by its arguments, the   *)
(* messages at hand and the answers of the native layer.                    *)
(***************************************************************************)
AllBytes(n) == UNION {Bytes(k) : k \in 0..n}
Flags == {"0", "NN_DONTWAIT", "other"}
NativeAnswers == {"0", "NNG_ENOMEM"}
TransferAnswers == {"0", "NNG_EAGAIN"}

FixedBuf(d) == [len |-> Len(d), base |-> NullPtr, data |-> d]
DynBuf(p) == [len |-> NN_MSG, base |-> p, data |-> << >>]
Descriptor(iovlen, iov, control, controllen, cdata, cptr) ==
    [null |-> FALSE, iovlen |-> iovlen, iov |-> iov, control |-> control,
     controllen |-> controllen, cdata |-> cdata, cptr |-> cptr]
NullDescriptor ==
    [null |-> TRUE, iovlen |-> 0, iov |-> << >>, control |-> "null",
     controllen |-> 0, cdata |-> << >>, cptr |-> NullPtr]

\* The sizes of a fixed control buffer: too small for the record header,
\* just the record header, and room for a header of up to sizeof (size_t).
CtlSizes == {0, SizeofSizeT, SizeofCmsghdr, SizeofCmsghdr + 1,
             SizeofCmsghdr + SizeofSizeT}

RecvIovs ==
    UNION {[1..k -> {FixedBuf(Blank(n)) : n \in 0..MaxBuf} \cup {DynBuf(NullPtr)}] :
            k \in 0..MaxIov}
RecvDescriptors ==
    {NullDescriptor, Descriptor(-1, << >>, "null", 0, << >>, NullPtr)}
    \cup {Descriptor(Len(iov), iov, "null", 0, << >>, NullPtr) : iov \in RecvIovs}
    \cup {Descriptor(Len(iov), iov, "fixed", t, Blank(t), NullPtr) :
            iov \in RecvIovs, t \in CtlSizes}
    \cup {Descriptor(Len(iov), iov, "dyn", NN_MSG, << >>, NullPtr) : iov \in RecvIovs}

\* The messages the native layer may deliver.
Messages == [body : AllBytes(MaxBody), hdr : AllBytes(MaxHdr)]
NoMessage == [body |-> << >>, hdr |-> << >>]

HasFresh2(h) == Cardinality({i \in MsgIds : h[i].st = "none"}) >= 2

\* nn_recvmsg(s, mh, flags)
RecvMsg ==
    /\ last.op = "none"
    /\ HasFresh2(msgs)
    /\ \E flags \in Flags, mh \in RecvDescriptors, rrv \in TransferAnswers :
       \E rmsg \in IF rrv = "0" THEN Messages ELSE {NoMessage} :
       \E prv \in IF mh.iovlen = 1 THEN NativeAnswers ELSE {"0"} :
       \E arv \in IF mh.control = "dyn" THEN NativeAnswers ELSE {"0"} :
       \E r \in {nn_recvmsg(msgs, mh, flags, rrv, rmsg, prv, arv)} :
            /\ msgs' = r.h
            /\ env' = IF r.ret # -1
                      THEN env \cup ({r.bodyptr, r.ctlptr} \ {NullPtr})
                      ELSE env
            /\ errno' = Errno(r)
            /\ last' = [op |-> "nn_recvmsg", mh |-> mh, flags |-> flags,
                        rrv |-> rrv, rmsg |-> rmsg, prv |-> prv, arv |-> arv,
                        ret |-> r.ret, nat |-> r.nat, ub |-> r.ub, bufs |-> r.bufs, ctl |-> r.ctl,
                        bodyptr |-> r.bodyptr, ctlptr |-> r.ctlptr,
                        msg |-> r.msg, pre |-> msgs, sent |-> NullDescriptor]
    /\ UNCHANGED socks
    /\ UNCHANGED platVars

\* An envelope as nn_allocmsg and the application's writes leave it.
Envelope(h, B) ==
    Store(nn_allocmsg(h, Len(B), 0, "0").h, nn_allocmsg(h, Len(B), 0, "0").ret, B)
EnvelopePtr(id) == [m |-> id, off |-> SizeofMsg]

\* The descriptors nn_sendmsg is called with, for the envelopes e at hand: a
\* descriptor hands over every envelope there is, the first as the body or,
\* when it is the only one and small, as the control data.
SendIovs ==
    UNION {[1..k -> {FixedBuf(d) : d \in AllBytes(MaxBuf)} \cup {DynBuf(NullPtr)}] :
            k \in 0..MaxIov}
    \ {<<DynBuf(NullPtr)>>}
SendDescriptors(h, e) ==
    IF e = {}
    THEN {NullDescriptor, Descriptor(-1, << >>, "null", 0, << >>, NullPtr)}
         \cup {Descriptor(Len(iov), iov, "null", 0, << >>, NullPtr) : iov \in SendIovs}
         \cup {Descriptor(Len(iov), iov, "fixed", Len(c), c, NullPtr) :
                iov \in SendIovs, c \in AllBytes(MaxHdr)}
    ELSE IF Cardinality(e) = 1
    THEN {Descriptor(1, <<DynBuf(EnvelopePtr(1))>>, "null", 0, << >>, NullPtr)}
         \cup {Descriptor(1, <<DynBuf(EnvelopePtr(1))>>, "fixed", Len(c), c, NullPtr) :
                c \in AllBytes(MaxHdr)}
         \cup {Descriptor(Len(iov), iov, "dyn", NN_MSG, << >>, EnvelopePtr(1)) :
                iov \in IF Len(Visible(h, EnvelopePtr(1))) <= MaxHdr
                        THEN SendIovs ELSE {}}
    ELSE {Descriptor(1, <<DynBuf(EnvelopePtr(1))>>, "dyn", NN_MSG, << >>, EnvelopePtr(2))}

\* nn_sendmsg(s, mh, flags)
SendMsg ==
    /\ last.op = "none"
    /\ HasFresh(msgs)
    /\ \E flags \in Flags, mh \in SendDescriptors(msgs, env) :
       \E arv \in IF mh.iovlen = 1 /\ mh.iov[1].len = NN_MSG
                  THEN {"0"} ELSE AllocAnswers(SumLens(mh.iov, 1)) :
       \E hrv \in IF mh.control # "null" THEN NativeAnswers ELSE {"0"} :
       \E srv \in TransferAnswers :
       \E r \in {nn_sendmsg(msgs, mh, flags, arv, hrv, srv)} :
            /\ msgs' = r.h
            /\ env' = {p \in env : HandleAt(r.h, p) # 0 /\ r.h[HandleAt(r.h, p)].own = "user"}
            /\ errno' = Errno(r)
            /\ last' = [op |-> "nn_sendmsg", mh |-> mh, flags |-> flags,
                        arv |-> arv, hrv |-> hrv, srv |-> srv,
                        ret |-> r.ret, nat |-> r.nat, ub |-> r.ub, msg |-> r.msg,
                        keep |-> r.keep, cmsg |-> r.cmsg, pre |-> msgs]
    /\ UNCHANGED socks
    /\ UNCHANGED platVars

\* The envelopes at hand when nn_sendmsg is called: none, one, or one for
\* the body and one for the control data.
SendInitState ==
    /\ \E B \in AllBytes(MaxSize), C \in AllBytes(MaxHdr) :
        msgs = IF B = << >> THEN [i \in MsgIds |-> NoMsg]
               ELSE IF C = << >> THEN Envelope([i \in MsgIds |-> NoMsg], B)
               ELSE Envelope(Envelope([i \in MsgIds |-> NoMsg], B), C)
    /\ env = {EnvelopePtr(i) : i \in {j \in MsgIds : msgs[j].st = "live"}}
    /\ socks = {}
    /\ errno = "0"
    /\ last = [op |-> "none"]

(***************************************************************************)
(* nn_socket.                                                              *)
(***************************************************************************)
\* nng_open(&sock, protocol), when it succeeds: the new socket.
nng_open(open) ==
    CHOOSE s \in 1..(Cardinality(open) + 1) :
        s \notin open /\ \A t \in 1..(s - 1) : t \in open

\* nng_close(s), when it succeeds: s is open no more.
nng_close(open, s) == open \ {s}

\* What nn_socket did: open are the native sockets open after it.
SockResult(open, ret, err, nat) == [open |-> open, ret |-> ret, err |-> err, nat |-> nat]

\* nn_socket(domain, protocol).  orv, srv: what nng_open and nng_setopt
\* answer.
\* nn_socket without the nng_close(sock) of the failure path of the raw
\* option.
nn_socket_NoClose(open, domain, protocol, orv, srv) ==
    IF (domain # "AF_SP") /\ (domain # "AF_SP_RAW")
    THEN SockResult(open, -1, "EAFNOSUPPORT", << >>)
    ELSE IF orv # "0"
    THEN SockResult(open, -1, nn_seterror(orv), <<"nng_open">>)
    ELSE IF domain = "AF_SP_RAW" /\ srv # "0"
    THEN SockResult(open \cup {nng_open(open)}, -1, nn_seterror(srv),
                    <<"nng_open", "nng_setopt">>)
    ELSE SockResult(open \cup {nng_open(open)}, nng_open(open), "",
                    IF domain = "AF_SP_RAW" THEN <<"nng_open", "nng_setopt">>
                    ELSE <<"nng_open">>)

nn_socket(open, domain, protocol, orv, srv) ==
    IF (domain # "AF_SP") /\ (domain # "AF_SP_RAW")
    THEN SockResult(open, -1, "EAFNOSUPPORT", << >>)
    ELSE IF orv # "0"
    THEN SockResult(open, -1, nn_seterror(orv), <<"nng_open">>)
    ELSE IF domain = "AF_SP_RAW" /\ srv # "0"
    THEN SockResult(nng_close(open \cup {nng_open(open)}, nng_open(open)), -1,
                    nn_seterror(srv), <<"nng_open", "nng_setopt", "nng_close">>)
    ELSE SockResult(open \cup {nng_open(open)}, nng_open(open), "",
                    IF domain = "AF_SP_RAW" THEN <<"nng_open", "nng_setopt">>
                    ELSE <<"nng_open">>)

Domains == {"AF_SP", "AF_SP_RAW", "AF_INET"}
Protocols == {"NN_PAIR", "NN_REQ", "NN_SUB"}

\* nn_socket(domain, protocol)
Socket ==
    /\ Cardinality(socks) < MaxSocks
    /\ \E domain \in Domains, protocol \in Protocols :
       \E orv \in {"0", "NNG_ENOMEM", "NNG_ENOTSUP"} :
       \E srv \in IF domain = "AF_SP_RAW" /\ orv = "0" THEN {"0", "NNG_ENOTSUP"} ELSE {"0"} :
       \E r \in {nn_socket(socks, domain, protocol, orv, srv)} :
            /\ socks' = r.open
            /\ errno' = Errno(r)
            /\ last' = [op |-> "nn_socket", domain |-> domain, protocol |-> protocol,
                        orv |-> orv, srv |-> srv, ret |-> r.ret, nat |-> r.nat,
                        ub |-> FALSE, pre |-> msgs, open |-> socks]
    /\ UNCHANGED <<msgs, env>>
    /\ UNCHANGED platVars

\* nn_close(s).  crv: what nng_close answers.
nn_close(open, s, crv) ==
    IF crv # "0"
    THEN SockResult(open, -1, nn_seterror(crv), <<"nng_close">>)
    ELSE SockResult(nng_close(open, s), 0, "", <<"nng_close">>)

\* nn_close(s): the native layer closes an open socket and answers
\* NNG_ECLOSED for any other.
Close ==
    \E s \in 1..MaxSocks :
    \E r \in {nn_close(socks, s, IF s \in socks THEN "0" ELSE "NNG_ECLOSED")} :
        /\ socks' = r.open
        /\ errno' = Errno(r)
        /\ last' = [op |-> "nn_close", s |-> s, ret |-> r.ret, nat |-> r.nat,
                    ub |-> FALSE, pre |-> msgs, open |-> socks]
        /\ UNCHANGED <<msgs, env>>
        /\ UNCHANGED platVars

(***************************************************************************)
(* nn_setsockopt.                                                          *)
(*                                                                          *)
(* An option value is the memory valp points to, sz bytes, written as a     *)
(* sequence of 16-bit limbs, the least significant first: an int is two     *)
(* limbs, a uint64_t four.                                                  *)
(***************************************************************************)
LimbBase == 2 ^ 16
SizeofUsec == 8       \* sizeof (usec), a uint64_t

\* *(int *) valp, for a value of two limbs.
IntOf(val) ==
    (IF val[2] >= LimbBase \div 2 THEN val[2] - LimbBase ELSE val[2]) * LimbBase + val[1]

\* usec = *(int *) valp: the conversion of an int to uint64_t.
SignExtend(val) ==
    IF IntOf(val) < 0 THEN val \o <<LimbBase - 1, LimbBase - 1>> ELSE val \o <<0, 0>>

\* usec *= 1000, in 64 bits: limb by limb from limb i on, with the carry.
RECURSIVE MulSmall(_, _, _, _)
MulSmall(val, k, i, carry) ==
    IF i > Len(val) THEN << >>
    ELSE <<(val[i] * k + carry) % LimbBase>>
         \o MulSmall(val, k, i + 1, (val[i] * k + carry) \div LimbBase)

Found(opt, mscvt) == [found |-> TRUE, opt |-> opt, mscvt |-> mscvt]
NotFound == [found |-> FALSE, opt |-> "0", mscvt |-> 0]

\* The inner switch of each level: NotFound is "errno = ENOPROTOOPT;
\* return (-1);".
SwitchSolSocket(nnopt) ==
    CASE nnopt = "NN_LINGER" -> Found("NNG_OPT_LINGER", 0)
      [] nnopt = "NN_SNDBUF" -> Found("NNG_OPT_SNDBUF", 0)
      [] nnopt = "NN_RCVBUF" -> Found("NNG_OPT_RCVBUF", 0)
      [] nnopt = "NN_RECONNECT_IVL" -> Found("NNG_OPT_RECONN_TIME", 1)
      [] nnopt = "NN_RECONNECT_IVL_MAX" -> Found("NNG_OPT_RECONN_MAXTIME", 1)
      [] nnopt = "NN_SNDFD" -> Found("NNG_OPT_SNDFD", 0)
      [] nnopt = "NN_RCVFD" -> Found("NNG_OPT_RCVFD", 0)
      [] nnopt = "NN_RCVMAXSIZE" -> Found("NNG_OPT_RCVMAXSZ", 0)
      [] nnopt = "NN_MAXTTL" -> Found("NNG_OPT_MAXTTL", 0)
      [] nnopt = "NN_RCVTIMEO" -> Found("NNG_OPT_RCVTIMEO", 1)
      [] nnopt = "NN_SNDTIMEO" -> Found("NNG_OPT_SNDTIMEO", 1)
      [] OTHER -> NotFound
SwitchReq(nnopt) ==
    CASE nnopt = "NN_REQ_RESEND_IVL" -> Found("NNG_OPT_RESENDTIME", 1)
      [] OTHER -> NotFound
SwitchSub(nnopt) ==
    CASE nnopt = "NN_SUB_SUBSCRIBE" -> Found("NNG_OPT_SUBSCRIBE", 0)
      [] nnopt = "NN_SUB_UNSUBSCRIBE" -> Found("NNG_OPT_UNSUBSCRIBE", 0)
      [] OTHER -> NotFound
SwitchSurveyor(nnopt) ==
    CASE nnopt = "NN_SURVEY_DEADLINE" -> Found("NNG_OPT_SURVEYTIME", 1)
      [] OTHER -> NotFound

\* The outer switch.  The cases NN_SOL_SOCKET, NN_REQ and NN_SUB end with a
\* break; the case NN_SURVEYOR does not, so that after its inner switch
\* control runs on into the default case, which returns ENOPROTOOPT.
SwitchLevel(nnlevel, nnopt) ==
    CASE nnlevel = "NN_SOL_SOCKET" -> SwitchSolSocket(nnopt)
      [] nnlevel = "NN_REQ" -> SwitchReq(nnopt)
      [] nnlevel = "NN_SUB" -> SwitchSub(nnopt)
      [] nnlevel = "NN_SURVEYOR" ->
            IF SwitchSurveyor(nnopt).found THEN NotFound ELSE SwitchSurveyor(nnopt)
      [] OTHER -> NotFound

\* What nn_setsockopt did: fwd is what it handed to nng_setopt.
OptResult(ret, err, nat, fwd) == [ret |-> ret, err |-> err, nat |-> nat, fwd |-> fwd]
NoFwd == [opt |-> "0", val |-> << >>, sz |-> 0]

\* nng_setopt(s, opt, valp, sz) and the return.
OptForward(opt, val, sz, srv) ==
    IF srv # "0"
    THEN OptResult(-1, nn_seterror(srv), <<"nng_setopt">>, [opt |-> opt, val |-> val, sz |-> sz])
    ELSE OptResult(0, "", <<"nng_setopt">>, [opt |-> opt, val |-> val, sz |-> sz])

\* nn_setsockopt(s, nnlevel, nnopt, valp, sz).  srv: what nng_setopt
\* answers.
nn_setsockopt(nnlevel, nnopt, val, sz, srv) ==
    IF ~SwitchLevel(nnlevel, nnopt).found
    THEN OptResult(-1, "ENOPROTOOPT", << >>, NoFwd)
    ELSE IF SwitchLevel(nnlevel, nnopt).mscvt = 1
    THEN IF sz # SizeofInt
         THEN OptResult(-1, "EINVAL", << >>, NoFwd)
         ELSE OptForward(SwitchLevel(nnlevel, nnopt).opt,
                         MulSmall(SignExtend(val), 1000, 1, 0), SizeofUsec, srv)
    ELSE OptForward(SwitchLevel(nnlevel, nnopt).opt, val, sz, srv)

Levels == {"NN_SOL_SOCKET", "NN_REQ", "NN_SUB", "NN_SURVEYOR", "NN_PUB"}
Options ==
    {"NN_LINGER", "NN_SNDBUF", "NN_RCVBUF", "NN_RECONNECT_IVL",
     "NN_RECONNECT_IVL_MAX", "NN_SNDFD", "NN_RCVFD", "NN_RCVMAXSIZE", "NN_MAXTTL",
     "NN_RCVTIMEO", "NN_SNDTIMEO", "NN_DOMAIN", "NN_PROTOCOL", "NN_IPV4ONLY",
     "NN_SOCKET_NAME", "NN_SNDPRIO", "NN_RCVPRIO", "NN_REQ_RESEND_IVL",
     "NN_SUB_SUBSCRIBE", "NN_SUB_UNSUBSCRIBE", "NN_SURVEY_DEADLINE"}

\* The limbs of the values passed: 0, 1, -1, INT_MAX, INT_MIN and others.
Limbs == {0, 1, LimbBase \div 2 - 1, LimbBase \div 2, LimbBase - 1}
\* The sizes passed: none, a short, an int, a uint64_t; a value has sz bytes.
OptSizes == {0, SizeofInt \div 2, SizeofInt, SizeofUsec}
OptValues(sz) ==
    IF sz = SizeofInt THEN [1..2 -> Limbs]
    ELSE IF sz = SizeofUsec THEN {<<0, 0, 0, 0>>, <<1, 0, 0, 0>>}
    ELSE IF sz = 0 THEN {<< >>}
    ELSE {<<0>>, <<1>>}

\* nn_setsockopt(s, nnlevel, nnopt, valp, sz)
SetSockOpt ==
    /\ last.op = "none"
    /\ \E nnlevel \in Levels, nnopt \in Options, sz \in OptSizes :
       \E val \in OptValues(sz), srv \in {"0", "NNG_EINVAL"} :
       \E r \in {nn_setsockopt(nnlevel, nnopt, val, sz, srv)} :
            /\ errno' = Errno(r)
            /\ last' = [op |-> "nn_setsockopt", nnlevel |-> nnlevel, nnopt |-> nnopt,
                        val |-> val, sz |-> sz, ret |-> r.ret, nat |-> r.nat,
                        fwd |-> r.fwd, ub |-> FALSE, pre |-> msgs]
    /\ UNCHANGED <<msgs, socks, env>>
    /\ UNCHANGED platVars

(***************************************************************************)
(* Specifications.                                                         *)
(***************************************************************************)
Init == PlatInitState /\ ShimInitState

\* The one-time initializer, called by NumThreads threads.
SpecPlat == Init /\ [][PlatNext]_vars

\* The envelope manager.
SpecMsg == Init /\ [][MsgNext]_vars

\* One call of nn_recvmsg.
SpecRecv == Init /\ [][RecvMsg]_vars

\* One call of nn_sendmsg.
InitSend == PlatInitState /\ SendInitState
SpecSend == InitSend /\ [][SendMsg]_vars

\* One call of nn_setsockopt.
SpecOpt == Init /\ [][SetSockOpt]_vars

\* The descriptors the peer receives a sent message with: one fixed buffer
\* and a fixed control buffer.
PeerDescriptors ==
    {Descriptor(1, <<FixedBuf(Blank(MaxBuf))>>, "fixed", t, Blank(t), NullPtr) :
        t \in CtlSizes}

\* nn_recvmsg(s, mh, 0) on the peer's socket, after a successful nn_sendmsg:
\* the native layer delivers the message sent, its body and its header as
\* the sender's native layer took them over.
RecvSent ==
    /\ last.op = "nn_sendmsg" /\ ~last.ub /\ last.ret # -1
    /\ HasFresh2(msgs)
    /\ \E mh \in PeerDescriptors :
       \E rmsg \in {[body |-> Body(msgs, last.msg),
                     hdr |-> nng_msg_header(msgs, last.msg)]} :
       \E r \in {nn_recvmsg(msgs, mh, "0", "0", rmsg, "0", "0")} :
            /\ msgs' = r.h
            /\ env' = IF r.ret # -1
                      THEN env \cup ({r.bodyptr, r.ctlptr} \ {NullPtr})
                      ELSE env
            /\ errno' = Errno(r)
            /\ last' = [op |-> "nn_recvmsg", mh |-> mh, flags |-> "0",
                        rrv |-> "0", rmsg |-> rmsg, prv |-> "0", arv |-> "0",
                        ret |-> r.ret, nat |-> r.nat, ub |-> r.ub, bufs |-> r.bufs,
                        ctl |-> r.ctl, bodyptr |-> r.bodyptr, ctlptr |-> r.ctlptr,
                        msg |-> r.msg, pre |-> msgs, sent |-> last.mh]
    /\ UNCHANGED socks
    /\ UNCHANGED platVars

\* A call of nn_sendmsg and the peer's nn_recvmsg of the message sent.
LoopNext == SendMsg \/ RecvSent
SpecLoop == InitSend /\ [][LoopNext]_vars

\* One call of the shim: nn_socket, nn_setsockopt, nn_sendmsg or nn_recvmsg.
ShimNext ==
    (last.op = "none" /\ Socket) \/ SetSockOpt \/ SendMsg \/ (env = {} /\ RecvMsg)

\* A native call of the shim fails with the native code err:
\* nn_seterror(err).
SetError ==
    \E err \in NativeCodes :
        /\ errno' = nn_seterror(err)
        /\ last' = [op |-> "nn_seterror", err |-> err]
        /\ UNCHANGED <<msgs, socks, env>>
        /\ UNCHANGED platVars

\* nn_strerror(err); from is the native code errno was translated from,
\* when the call is nn_strerror(nn_errno()) right after the translation.
StrError ==
    \E err \in PosixCodes :
        /\ last' = [op |-> "nn_strerror", err |-> err, ret |-> nn_strerror(err),
                    from |-> IF last.op = "nn_seterror" /\ err = errno
                             THEN last.err ELSE "0"]
        /\ UNCHANGED <<msgs, socks, env, errno>>
        /\ UNCHANGED platVars

(***************************************************************************)
(* nni_plat_cv_until (win_thread.c).  An nni_time is a uint64_t, written   *)
(* as four 16-bit limbs, the least significant first; a DWORD is two.       *)
(***************************************************************************)
INFINITE == <<LimbBase - 1, LimbBase - 1>>

\* now > until, decided from limb i down.
RECURSIVE TimeGreater(_, _, _)
TimeGreater(a, b, i) ==
    IF i = 0 THEN FALSE
    ELSE IF a[i] # b[i] THEN a[i] > b[i]
    ELSE TimeGreater(a, b, i - 1)

\* until - now in 64 bits, from limb i on with the borrow.
RECURSIVE TimeSub(_, _, _, _)
TimeSub(a, b, i, borrow) ==
    IF i > Len(a) THEN << >>
    ELSE <<(a[i] - b[i] - borrow) % LimbBase>>
         \o TimeSub(a, b, i + 1, IF a[i] - b[i] - borrow < 0 THEN 1 ELSE 0)

\* val / k in 64 bits: the limbs of the quotient up to limb i, rem being
\* the remainder of the limbs above it.
RECURSIVE DivSmall(_, _, _, _)
DivSmall(val, k, i, rem) ==
    IF i = 0 THEN << >>
    ELSE DivSmall(val, k, i - 1, (rem * LimbBase + val[i]) % k)
         \o <<(rem * LimbBase + val[i]) \div k>>

\* msec = (DWORD) x: the low 32 bits.
ToDword(val) == SubSeq(val, 1, 2)

\* Lines 93-99: the wait handed to SleepConditionVariableCS.
CvUntilMsec(now, until) ==
    IF TimeGreater(now, until, 4) THEN <<0, 0>>
    ELSE ToDword(DivSmall(TimeSub(until, now, 1, 0), 1000, 4, 0))

\* nni_plat_cv_until(cv, until), the clock reading now.  ok: what
\* SleepConditionVariableCS answers.
nni_plat_cv_until(now, until, ok) ==
    [msec |-> CvUntilMsec(now, until),
     ret |-> IF ok THEN "0" ELSE "NNG_ETIMEDOUT"]

\* The clock readings and the deadlines: times near 0 and near the end of
\* the range, and deadlines a whole number of 2^32 ms, less one, away.
ClockTimes == [1..4 -> {0, LimbBase - 1}]
Deadlines == [1..4 -> {0, 999, LimbBase - 1000, LimbBase - 1}]

\* SleepConditionVariableCS(cv, cs, msec): woken (TRUE) or timed out; a wait
\* of INFINITE does not time out.
SleepAnswers(msec) == IF msec = INFINITE THEN {TRUE} ELSE {TRUE, FALSE}

\* nni_plat_cv_until(cv, until).  The call keeps no state: a run makes one.
CvUntil ==
    /\ last.op = "none"
    /\ \E now \in ClockTimes, until \in Deadlines :
       \E ok \in SleepAnswers(CvUntilMsec(now, until)) :
       \E r \in {nni_plat_cv_until(now, until, ok)} :
            last' = [op |-> "nni_plat_cv_until", now |-> now, until |-> until,
                     ok |-> ok, msec |-> r.msec, ret |-> r.ret]
    /\ UNCHANGED <<msgs, socks, env, errno>>
    /\ UNCHANGED platVars

\* One call of nni_plat_cv_until.
SpecCv == Init /\ [][CvUntil]_vars

\* Translations of native codes and descriptions of POSIX codes.
ErrNext == SetError \/ StrError
SpecErr == Init /\ [][ErrNext]_vars

\* Calls of nn_socket and nn_close, one after another.
SockNext == Socket \/ Close
SpecSock == Init /\ [][SockNext]_vars
SpecShim == InitSend /\ [][ShimNext]_vars

(***************************************************************************)
(* The one-time initializer.                                               *)
(***************************************************************************)

\* C1: however the callers' steps interleave, helper is executed at most
\* once, and exactly once as soon as a call of nni_plat_init has returned.
C1_HelperExactlyOnce ==
    /\ helperStarted <= 1
    /\ (\E t \in Threads : pc[t] = "done") => helperStarted = 1

\* C2: when a call of nni_plat_init has returned, by the fast path or by the
\* slow one, inited is set and an execution of helper has run to completion.
C2_ReturnAfterInit ==
    \A t \in Threads : pc[t] = "done" => (inited = 1 /\ helperDone >= 1)

\* One caller has returned by the fast path and another by the slow path.
C2_Witness ==
    \E t, u \in Threads :
        /\ pc[t] = "done" /\ path[t] = "fast"
        /\ pc[u] = "done" /\ path[u] = "slow"

(***************************************************************************)
(* The envelope manager.                                                   *)
(***************************************************************************)
SucceededRealloc == last.op = "nn_reallocmsg" /\ last.ret # NullPtr
FailedRealloc == last.op = "nn_reallocmsg" /\ last.ret = NullPtr /\ ~last.ub

\* C3: after a successful nn_reallocmsg(ptr, m) of an envelope with n visible
\* bytes, the first min(n, m) visible bytes behind the returned pointer are
\* the first min(n, m) visible bytes the envelope had before.
C3_ReallocKeepsPrefix ==
    SucceededRealloc =>
        LET B == Visible(last.pre, last.ptr)
            k == Min(Len(B), last.len)
        IN  SubSeq(Visible(msgs, last.ret), 1, k) = SubSeq(B, 1, k)

\* C4: the visible length behind the pointer a successful nn_allocmsg(n, 0)
\* returns is n, the one behind the pointer a successful nn_reallocmsg(ptr, m)
\* returns is m; it is the native body length of the message whose handle is
\* in front of the pointer, and the handle slot is no part of it.
C4_VisibleLength ==
    /\ (last.op = "nn_allocmsg" /\ last.ret # NullPtr) =>
            /\ Len(Visible(msgs, last.ret)) = last.size
            /\ HandleAt(msgs, last.ret) # 0
            /\ nng_msg_len(msgs, HandleAt(msgs, last.ret)) = last.size
    /\ SucceededRealloc =>
            /\ Len(Visible(msgs, last.ret)) = last.len
            /\ HandleAt(msgs, last.ret) # 0
            /\ nng_msg_len(msgs, HandleAt(msgs, last.ret)) = last.len

\* An envelope that an earlier resize has left with no visible byte (a size
\* nn_allocmsg refuses) has been resized to a length above 0.
C4_Witness ==
    /\ SucceededRealloc
    /\ Len(Visible(last.pre, last.ptr)) = 0
    /\ last.len > 0
    /\ Len(Visible(msgs, last.ret)) = last.len

\* C5: a failing nn_reallocmsg returns NULL and leaves every native message
\* as it was; the application still holds the original pointer, and the
\* handle in front of it is still the handle of the same live message.  No
\* call on a pointer the application holds reads a wild or dangling handle.
C5_FailedReallocKeepsEnvelope ==
    /\ FailedRealloc =>
            /\ msgs = last.pre
            /\ last.ptr \in env
            /\ HandleAt(msgs, last.ptr) # 0
            /\ HandleAt(msgs, last.ptr) = HandleAt(last.pre, last.ptr)
            /\ msgs[HandleAt(msgs, last.ptr)].own = "user"
    /\ last.op \in {"nn_reallocmsg", "nn_freemsg"} => ~last.ub
    /\ \A p \in env : HandleAt(msgs, p) # 0

\* The native resize of an envelope holding data has failed.
C5_Witness ==
    /\ FailedRealloc
    /\ last.nat = <<"nng_msg_realloc">>
    /\ \E i \in 1..Len(Visible(msgs, last.ptr)) : Visible(msgs, last.ptr)[i] # 0

(***************************************************************************)
(* nn_recvmsg into fixed buffers.                                          *)
(***************************************************************************)
\* The bytes of a body of L bytes that the buffers before buffer i take.
RECURSIVE TakenBefore(_, _, _)
TakenBefore(iov, i, L) ==
    IF i = 1 THEN 0
    ELSE Min(L, TakenBefore(iov, i - 1, L) + iov[i - 1].len)

\* nn_recvmsg was called with fixed buffers only and the native layer
\* delivered a message.
ReceivedIntoFixed ==
    /\ last.op = "nn_recvmsg"
    /\ last.flags # "other" /\ ~last.mh.null /\ last.mh.iovlen >= 0
    /\ last.rrv = "0"
    /\ \A i \in 1..Len(last.mh.iov) : last.mh.iov[i].len # NN_MSG

\* C6: when nn_recvmsg receives a message of body length L into fixed
\* buffers of capacities c_1..c_k, buffer i holds exactly the next
\* min(c_i, L - bytes already copied) bytes of the body, in order, the rest
\* of the buffer is not written, and the call returns L, also when L is more
\* than the buffers take together (the call returns -1 only when the
\* allocation of a dynamic control envelope fails).
C6_ScatterInOrder ==
    ReceivedIntoFixed =>
        /\ \A i \in 1..Len(last.mh.iov) :
            LET L == Len(last.rmsg.body)
                c == last.mh.iov[i].len
                from == TakenBefore(last.mh.iov, i, L)
                n == Min(c, L - from)
            IN  /\ Len(last.bufs[i]) = c
                /\ SubSeq(last.bufs[i], 1, n) = SubSeq(last.rmsg.body, from + 1, from + n)
                /\ \A j \in (n + 1)..c : last.bufs[i][j] = Untouched
        /\ IF last.mh.control = "dyn" /\ last.arv # "0"
           THEN last.ret = -1
           ELSE last.ret = Len(last.rmsg.body)

\* A message of three bytes is received into two buffers of one byte each:
\* each holds its byte of the body, the third byte is dropped, 3 is returned.
C6_Witness ==
    /\ ReceivedIntoFixed
    /\ last.rmsg.body = <<1, 0, 1>>
    /\ Len(last.mh.iov) = 2
    /\ last.bufs = <<(<<1>>), (<<0>>)>>
    /\ last.ret = 3

(***************************************************************************)
(* nn_setsockopt.                                                          *)
(***************************************************************************)
\* The supported options, each with the native option it is mapped to.
SupportedOptions ==
    {<<"NN_SOL_SOCKET", "NN_LINGER", "NNG_OPT_LINGER">>,
     <<"NN_SOL_SOCKET", "NN_SNDBUF", "NNG_OPT_SNDBUF">>,
     <<"NN_SOL_SOCKET", "NN_RCVBUF", "NNG_OPT_RCVBUF">>,
     <<"NN_SOL_SOCKET", "NN_RECONNECT_IVL", "NNG_OPT_RECONN_TIME">>,
     <<"NN_SOL_SOCKET", "NN_RECONNECT_IVL_MAX", "NNG_OPT_RECONN_MAXTIME">>,
     <<"NN_SOL_SOCKET", "NN_SNDFD", "NNG_OPT_SNDFD">>,
     <<"NN_SOL_SOCKET", "NN_RCVFD", "NNG_OPT_RCVFD">>,
     <<"NN_SOL_SOCKET", "NN_RCVMAXSIZE", "NNG_OPT_RCVMAXSZ">>,
     <<"NN_SOL_SOCKET", "NN_MAXTTL", "NNG_OPT_MAXTTL">>,
     <<"NN_SOL_SOCKET", "NN_RCVTIMEO", "NNG_OPT_RCVTIMEO">>,
     <<"NN_SOL_SOCKET", "NN_SNDTIMEO", "NNG_OPT_SNDTIMEO">>,
     <<"NN_REQ", "NN_REQ_RESEND_IVL", "NNG_OPT_RESENDTIME">>,
     <<"NN_SUB", "NN_SUB_SUBSCRIBE", "NNG_OPT_SUBSCRIBE">>,
     <<"NN_SUB", "NN_SUB_UNSUBSCRIBE", "NNG_OPT_UNSUBSCRIBE">>,
     <<"NN_SURVEYOR", "NN_SURVEY_DEADLINE", "NNG_OPT_SURVEYTIME">>}

\* The options whose value is a time in milliseconds.
MillisecondOptions ==
    {<<"NN_SOL_SOCKET", "NN_RECONNECT_IVL">>, <<"NN_SOL_SOCKET", "NN_RECONNECT_IVL_MAX">>,
     <<"NN_SOL_SOCKET", "NN_RCVTIMEO">>, <<"NN_SOL_SOCKET", "NN_SNDTIMEO">>,
     <<"NN_REQ", "NN_REQ_RESEND_IVL">>, <<"NN_SURVEYOR", "NN_SURVEY_DEADLINE">>}

\* C7: for every supported (level, option) pair, nn_setsockopt with a
\* correctly sized value (an int; any size for a subscription) does not fail
\* with ENOPROTOOPT but calls the native set-option with the mapped native
\* option.
C7_SupportedOptionsReachNative ==
    \A e \in SupportedOptions :
        (/\ last.op = "nn_setsockopt"
         /\ last.nnlevel = e[1] /\ last.nnopt = e[2]
         /\ (last.sz = SizeofInt \/ last.nnlevel = "NN_SUB"))
        => /\ ~(last.ret = -1 /\ errno = "ENOPROTOOPT")
           /\ last.nat = <<"nng_setopt">>
           /\ last.fwd.opt = e[3]

\* v * 1000 as a 64-bit value in limbs, for the int v in the two limbs val:
\* with v = hi * 2^16 + lo, hi signed, v * 1000 = (hi * 1000) * 2^16 + lo * 1000.
Times1000(val) ==
    LET hi == IF val[2] >= LimbBase \div 2 THEN val[2] - LimbBase ELSE val[2]
        upper == hi * 1000 + (val[1] * 1000) \div LimbBase
    IN  <<(val[1] * 1000) % LimbBase, upper % LimbBase,
          (upper \div LimbBase) % LimbBase,
          IF upper < 0 THEN LimbBase - 1 ELSE 0>>

\* C8: for every millisecond-converting option, nn_setsockopt with a value
\* of sizeof (int) bytes holding v hands the native set-option an 8-byte
\* value equal to v * 1000 in 64-bit arithmetic; with a value of any other
\* size it fails with EINVAL and calls no native set-option.
C8_MillisecondConversion ==
    (last.op = "nn_setsockopt" /\ <<last.nnlevel, last.nnopt>> \in MillisecondOptions)
    => IF last.sz = SizeofInt
       THEN /\ last.nat = <<"nng_setopt">>
            /\ last.fwd.sz = 8
            /\ last.fwd.val = Times1000(last.val)
       ELSE /\ last.ret = -1 /\ errno = "EINVAL"
            /\ last.nat = << >>

(***************************************************************************)
(* Translation errors.                                                     *)
(***************************************************************************)
\* The call was given arguments the shim cannot translate.
TranslationError ==
    \/ last.op = "nn_socket" /\ last.domain \notin {"AF_SP", "AF_SP_RAW"}
    \/ /\ last.op = "nn_setsockopt"
       /\ \A e \in SupportedOptions : <<last.nnlevel, last.nnopt>> # <<e[1], e[2]>>
    \/ /\ last.op \in {"nn_sendmsg", "nn_recvmsg"}
       /\ ~last.mh.null /\ last.mh.iovlen < 0
    \/ /\ last.op = "nn_recvmsg"
       /\ ~last.mh.null /\ last.mh.iovlen > 1
       /\ \E i \in 1..Len(last.mh.iov) : last.mh.iov[i].len = NN_MSG

\* C9: a shim call that is given an unsupported domain (nn_socket), an
\* unsupported level or option (nn_setsockopt), a negative buffer count
\* (nn_sendmsg, nn_recvmsg) or a dynamic buffer among other buffers
\* (nn_recvmsg) fails without having called a native primitive; nn_recvmsg
\* has taken no message from the socket.
C9_TranslationErrorNoNativeCall ==
    TranslationError =>
        /\ last.ret = -1
        /\ last.nat = << >>
        /\ last.op = "nn_recvmsg" => last.msg = 0 /\ msgs = last.pre

(***************************************************************************)
(* nn_sendmsg: who owns the message afterwards.                            *)
(***************************************************************************)
\* The descriptor hands over an envelope: one buffer of length NN_MSG.
Adopted == last.mh.iovlen = 1 /\ last.mh.iov[1].len = NN_MSG

\* nn_sendmsg had its message and went on to the header append or the send.
SendHadMessage ==
    /\ last.op = "nn_sendmsg" /\ ~last.ub
    /\ last.flags # "other" /\ ~last.mh.null /\ last.mh.iovlen >= 0
    /\ Adopted \/ last.arv = "0"

\* The messages the call has made and not freed or handed over.
Leaked == {i \in MsgIds : last.pre[i].st = "none" /\ msgs[i].st = "live" /\ msgs[i].own = "user"}

\* C10: when nn_sendmsg fails at the header append or at the native send, a
\* message gathered by copy has been freed exactly once and no message the
\* call made is left, and an adopted envelope is not freed, is still live
\* and still the caller's; when nn_sendmsg succeeds, the message is
\* the native layer's and has not been freed.
C10_SendOwnership ==
    SendHadMessage =>
        IF last.ret = -1
        THEN /\ last.hrv # "0" \/ last.srv # "0"
             /\ IF Adopted
                THEN /\ last.msg = last.mh.iov[1].base.m
                     /\ msgs[last.msg].st = "live"
                     /\ msgs[last.msg].frees = 0
                     /\ msgs[last.msg].own = "user"
                     /\ last.mh.iov[1].base \in env
                ELSE /\ last.pre[last.msg].st = "none"
                     /\ msgs[last.msg].st = "freed"
                     /\ msgs[last.msg].frees = 1
             /\ Leaked = {}
        ELSE /\ msgs[last.msg].st = "live"
             /\ msgs[last.msg].frees = 0
             /\ msgs[last.msg].own = "native"
             /\ Leaked = {}

\* The native send of a message gathered from two buffers fails: the message
\* is freed once.
C10_Witness ==
    /\ SendHadMessage
    /\ ~Adopted /\ Len(last.mh.iov) = 2
    /\ last.ret = -1 /\ last.srv # "0"
    /\ msgs[last.msg].frees = 1
(***************************************************************************)
(* nn_sendmsg: the control envelope.                                       *)
(***************************************************************************)
\* nn_sendmsg was given its control data as an envelope and has returned.
SentWithControlEnvelope ==
    /\ last.op = "nn_sendmsg" /\ ~last.ub
    /\ ~last.mh.null /\ last.mh.control = "dyn"

\* C11: when nn_sendmsg is given control data as an envelope
\* (msg_controllen = NN_MSG), the control envelope has been freed, once, when
\* the call returns success, and when the call returns -1 the envelope is as
\* it was before the call, live, and still a pointer the caller holds.
C11_ControlEnvelopeFreedIffSent ==
    SentWithControlEnvelope =>
        IF last.ret # -1
        THEN /\ msgs[last.mh.cptr.m].st = "freed"
             /\ msgs[last.mh.cptr.m].frees = 1
        ELSE /\ msgs[last.mh.cptr.m] = last.pre[last.mh.cptr.m]
             /\ msgs[last.mh.cptr.m].st = "live"
             /\ last.mh.cptr \in env

\* The native send fails after the control envelope's bytes have been
\* appended to the header of an adopted body envelope.
C11_Witness ==
    /\ SentWithControlEnvelope
    /\ last.ret = -1 /\ last.hrv = "0" /\ last.srv # "0"
    /\ last.mh.iovlen = 1 /\ last.mh.iov[1].len = NN_MSG
    /\ msgs[last.mh.cptr.m].st = "live"
(***************************************************************************)
(* nn_recvmsg: what becomes of the message received.                       *)
(***************************************************************************)
\* The native receive of nn_recvmsg has delivered a message.
Received ==
    /\ last.op = "nn_recvmsg"
    /\ last.flags # "other" /\ ~last.mh.null /\ last.mh.iovlen >= 0
    /\ last.rrv = "0"

\* The descriptor asks for the message itself: one buffer of length NN_MSG.
WantsEnvelope == last.mh.iovlen = 1 /\ last.mh.iov[1].len = NN_MSG

\* C12: on every return of nn_recvmsg after the native receive has
\* succeeded, the received message is the caller's (live, never freed, behind
\* a pointer the caller holds) when the call succeeds with a single buffer
\* of length NN_MSG, and has been freed exactly once in every other case;
\* no message the call has made is left live without the caller holding it.
C12_ReceivedMessageDisposedOnce ==
    Received =>
        /\ last.msg # 0 /\ last.pre[last.msg].st = "none"
        /\ IF last.ret # -1 /\ WantsEnvelope
           THEN /\ msgs[last.msg].st = "live"
                /\ msgs[last.msg].frees = 0
                /\ msgs[last.msg].own = "user"
                /\ last.bodyptr.m = last.msg
                /\ last.bodyptr \in env
           ELSE /\ msgs[last.msg].st = "freed"
                /\ msgs[last.msg].frees = 1
        /\ \A i \in MsgIds :
            (last.pre[i].st = "none" /\ msgs[i].st = "live")
                => \E p \in env : p.m = i

\* The call asked for the message and for a control envelope, and the
\* allocation of the control envelope failed: the message is freed once.
C12_Witness ==
    /\ Received /\ WantsEnvelope
    /\ last.mh.control = "dyn" /\ last.prv = "0" /\ last.arv # "0"
    /\ last.ret = -1
    /\ msgs[last.msg].frees = 1
(***************************************************************************)
(* nn_socket: the native sockets it leaves open.                           *)
(***************************************************************************)
\* C13: after a call of nn_socket that returns -1 the native sockets that
\* are open are those that were open before it (an unsupported domain opens
\* none, and a socket whose raw option could not be set has been closed
\* again); after a call that returns a socket, that socket is new and is the
\* one socket open in addition.
C13_SocketNoHandleLeak ==
    last.op = "nn_socket" =>
        IF last.ret = -1
        THEN socks = last.open
        ELSE /\ last.ret \notin last.open
             /\ socks = last.open \cup {last.ret}

\* A raw socket has been opened, the raw option could not be set, and the
\* socket has been closed again, while another socket is open.
C13_Witness ==
    /\ last.op = "nn_socket"
    /\ last.domain = "AF_SP_RAW" /\ last.orv = "0" /\ last.srv # "0"
    /\ last.ret = -1
    /\ last.nat = <<"nng_open", "nng_setopt", "nng_close">>
    /\ socks # {}
(***************************************************************************)
(* nn_sendmsg: the sum of the buffer lengths.                              *)
(***************************************************************************)
\* The lengths of the buffers from i on that stand for a size near SIZE_MAX
\* (below 0 in the model), and the sum of the others.
RECURSIVE HugeLens(_, _)
HugeLens(iov, i) ==
    IF i > Len(iov) THEN << >>
    ELSE (IF iov[i].len < 0 THEN <<iov[i].len>> ELSE << >>) \o HugeLens(iov, i + 1)
RECURSIVE SmallSum(_, _)
SmallSum(iov, i) ==
    IF i > Len(iov) THEN 0
    ELSE (IF iov[i].len < 0 THEN 0 ELSE iov[i].len) + SmallSum(iov, i + 1)

\* The arithmetic sum of the lengths does not fit in size_t: two lengths
\* near SIZE_MAX, or one of them, SIZE_MAX + x with x < 0, and others that
\* sum to -x or more.
SumOverflows(iov) ==
    \/ Len(HugeLens(iov, 1)) >= 2
    \/ Len(HugeLens(iov, 1)) = 1 /\ HugeLens(iov, 1)[1] + SmallSum(iov, 1) >= 0

\* C14: a call of nn_sendmsg that gathers from buffers whose lengths sum to
\* more than size_t holds fails: it returns -1, its behaviour is defined, and
\* it has sent nothing.
C14_GatherOverflowFails ==
    (/\ last.op = "nn_sendmsg"
     /\ last.flags # "other" /\ ~last.mh.null /\ last.mh.iovlen >= 0
     /\ ~(last.mh.iovlen = 1 /\ last.mh.iov[1].len = NN_MSG)
     /\ SumOverflows(last.mh.iov))
    => /\ ~last.ub
       /\ last.ret = -1
       /\ \A i \in 1..Len(last.nat) : last.nat[i] # "nng_sendmsg"
(***************************************************************************)
(* The translation of error codes.                                         *)
(***************************************************************************)
\* The entries of nn_errnos: all but the terminating { 0, 0 }.
Entries == 1..(Len(nn_errnos) - 1)

\* C15: for every entry of nn_errnos, nn_seterror of its native code leaves
\* its POSIX code in errno, and nn_strerror asked about the POSIX code so
\* produced finds the entry with the native code translated; a native code
\* other than 0 that no entry has is translated to EIO, and every
\* translation leaves a code in errno.
C15_ErrorRoundTrip ==
    /\ last.op = "nn_seterror" =>
        /\ \A i \in Entries :
            last.err = nn_errnos[i].nerr => errno = nn_errnos[i].perr
        /\ (last.err # "0" /\ \A i \in Entries : last.err # nn_errnos[i].nerr)
            => errno = "EIO"
        /\ errno \in PosixCodes
    /\ (/\ last.op = "nn_strerror"
        /\ \E i \in Entries : last.from = nn_errnos[i].nerr)
        => /\ last.err = errno
           /\ last.ret.text = "nng_strerror"
           /\ last.ret.nerr = last.from

\* NNG_ECLOSED has been translated (to EBADF, a code of another name), and
\* nn_strerror asked about errno has found NNG_ECLOSED again.
C15_Witness ==
    /\ last.op = "nn_strerror"
    /\ last.from = "NNG_ECLOSED"
    /\ errno = "EBADF"
    /\ last.ret.nerr = "NNG_ECLOSED"
(***************************************************************************)
(* nni_plat_cv_until: the wait handed to the OS.                           *)
(***************************************************************************)
\* a + b for two values of four limbs: the limbs from i on and, as a fifth
\* limb, the carry out of 64 bits.
RECURSIVE AddLimbs(_, _, _, _)
AddLimbs(a, b, i, carry) ==
    IF i > Len(a) THEN <<carry>>
    ELSE <<(a[i] + b[i] + carry) % LimbBase>>
         \o AddLimbs(a, b, i + 1, (a[i] + b[i] + carry) \div LimbBase)

\* a <= b for values of the same number of limbs.
RECURSIVE LimbsLeq(_, _, _)
LimbsLeq(a, b, i) ==
    IF i = 0 THEN TRUE
    ELSE IF a[i] # b[i] THEN a[i] < b[i]
    ELSE LimbsLeq(a, b, i - 1)

\* msec milliseconds in microseconds, as a value of four limbs (it is below
\* 2^42).
MsecInUsec(msec) ==
    LET lo == msec[1] * 1000
        hi == msec[2] * 1000 + lo \div LimbBase
    IN  <<lo % LimbBase, hi % LimbBase, hi \div LimbBase, 0>>

\* C16: the wait nni_plat_cv_until hands to SleepConditionVariableCS is 0
\* when now > until, and otherwise it is not INFINITE and now plus the wait
\* is no later than until; the call returns NNG_ETIMEDOUT when the wait
\* ended without a wake and 0 when it was woken.
C16_WaitWithinDeadline ==
    last.op = "nni_plat_cv_until" =>
        /\ IF ~LimbsLeq(last.now, last.until, 4)
           THEN last.msec = <<0, 0>>
           ELSE /\ last.msec # <<LimbBase - 1, LimbBase - 1>>
                /\ AddLimbs(last.now, MsecInUsec(last.msec), 1, 0)[5] = 0
                /\ LimbsLeq(SubSeq(AddLimbs(last.now, MsecInUsec(last.msec), 1, 0), 1, 4),
                            last.until, 4)
        /\ last.ret = IF last.ok THEN "0" ELSE "NNG_ETIMEDOUT"
(***************************************************************************)
(* Control data from nn_sendmsg to nn_recvmsg.                             *)
(***************************************************************************)
\* A field of width bytes holding the small number v: v, then zeros.
FieldOf(v, width) == [i \in 1..width |-> IF i = 1 THEN v ELSE 0]

\* C17: when nn_sendmsg has sent a message with the bytes H in a fixed
\* control buffer and the peer's nn_recvmsg receives that message with a
\* fixed control buffer of at least NN_CMSG_SPACE(|H|) bytes, the buffer
\* starts with a record of cmsg_len = |H|, cmsg_level = PROTO_SP and
\* cmsg_type = SP_HDR, followed by the bytes H.
C17_ControlRoundTrip ==
    (/\ last.op = "nn_recvmsg" /\ last.ret # -1
     /\ ~last.sent.null /\ last.sent.control = "fixed"
     /\ last.mh.control = "fixed"
     /\ last.mh.controllen >= NN_CMSG_SPACE(Len(last.sent.cdata)))
    => /\ SubSeq(last.ctl, 1, 8) = FieldOf(Len(last.sent.cdata), 8)
       /\ SubSeq(last.ctl, 9, 12) = FieldOf(PROTO_SP, 4)
       /\ SubSeq(last.ctl, 13, 16) = FieldOf(SP_HDR, 4)
       /\ SubSeq(last.ctl, 17, 16 + Len(last.sent.cdata)) = last.sent.cdata

\* A control byte 1 has been sent and has come out of nn_recvmsg.
C17_Witness ==
    /\ last.op = "nn_recvmsg" /\ last.ret # -1
    /\ ~last.sent.null /\ last.sent.control = "fixed"
    /\ last.sent.cdata = <<1>>
    /\ last.mh.control = "fixed"
    /\ Len(last.ctl) >= 17
    /\ last.ctl[17] = 1
(***************************************************************************)
(* The fixed control buffer of nn_recvmsg.                                 *)
(***************************************************************************)
\* The number of header bytes that fit in a buffer of t bytes after the
\* basic record header.
HeaderBytesThatFit(hlen, t) ==
    IF t <= SizeofCmsghdr THEN 0 ELSE Min(hlen, t - SizeofCmsghdr)

\* C18: when nn_recvmsg fills a fixed control buffer of t bytes for a
\* message with h header bytes, the buffer still has t bytes, holds after
\* the basic record header as many of the header bytes as fit (all of them
\* or a proper prefix), and holds only zeros when t is smaller than the
\* basic record header.
C18_ControlCopiesWhatFits ==
    (/\ last.op = "nn_recvmsg" /\ last.ret # -1 /\ ~last.ub
     /\ last.mh.control = "fixed")
    => /\ Len(last.ctl) = last.mh.controllen
       /\ last.mh.controllen < SizeofCmsghdr
            => last.ctl = nni_alloc(last.mh.controllen)
       /\ SubSeq(last.ctl, SizeofCmsghdr + 1,
                 SizeofCmsghdr
                    + HeaderBytesThatFit(Len(last.rmsg.hdr), last.mh.controllen))
            = SubSeq(last.rmsg.hdr, 1,
                     HeaderBytesThatFit(Len(last.rmsg.hdr), last.mh.controllen))
(***************************************************************************)
(* The adopted envelope after a failed nn_sendmsg.                         *)
(***************************************************************************)
\* C19: a failing nn_sendmsg that had adopted an envelope leaves it as it
\* was before the call: its body and its header region are unchanged, so
\* that the same call made again sends the control data once.
C19_FailedSendRestoresEnvelope ==
    (/\ last.op = "nn_sendmsg" /\ ~last.ub /\ last.ret = -1
     /\ last.keep /\ last.msg \in MsgIds)
    => /\ Body(msgs, last.msg) = Body(last.pre, last.msg)
       /\ nng_msg_header(msgs, last.msg) = nng_msg_header(last.pre, last.msg)
(***************************************************************************)
(* The pointers nn_recvmsg stores in caller memory.                        *)
(***************************************************************************)
\* The envelope pointers the last nn_recvmsg stored through
\* msg_iov[0].iov_base and msg_control.
StoredPointers == {last.bodyptr, last.ctlptr} \ {NullPtr}

\* C20: when nn_recvmsg returns, with success or with failure, every
\* envelope pointer it stored in caller memory refers to a native message
\* that is still allocated and is owned by the caller.
C20_StoredPointersAreLive ==
    (last.op = "nn_recvmsg" /\ ~last.ub)
    => \A p \in StoredPointers :
        /\ HandleAt(msgs, p) # 0
        /\ msgs[HandleAt(msgs, p)].st = "live"
        /\ msgs[HandleAt(msgs, p)].own = "user"

====
